---- MODULE Spec2Model ----
(***************************************************************************)
(* Model of snc, a one-way directory synchronizer.                         *)
(*                                                                         *)
(* A run is one call of Synchronizer.Sync: directory validation, the copy  *)
(* pass (stream.Sync) and, when enabled, the sweep (stream.DeleteMissing). *)
(* The two directory trees are functions from a small set of relative      *)
(* paths to entries; each walk step handles one entry.  Failures of the    *)
(* operating system (stat, mkdir, create, copy, chtimes, remove) that do   *)
(* not follow from the trees are drawn nondeterministically, at most one   *)
(* per step and MaxFaults in all.                                          *)
(***************************************************************************)
EXTENDS Integers, Sequences, FiniteSets, TLC

\* ------------------------------------------------------------------ bounds
\* Number of successive runs over the same pair of trees.
MaxRuns == 2

\* Number of operating-system failures injected over all runs.
MaxFaults == 1

\* Modification times of the files present before the first run: 1..MaxTime.
MaxTime == 2

\* ------------------------------------------------------------ file system
\* Relative paths; "." is the root itself (filepath.Rel(root, root)).
Paths == {".", "a", "d", "d/b"}

\* The proper ancestors of a relative path, root first.
Ancestors(p) ==
    CASE p = "."   -> <<>>
      [] p = "a"   -> <<".">>
      [] p = "d"   -> <<".">>
      [] p = "d/b" -> <<".", "d">>

\* filepath.WalkDir visits the entries of a tree in lexical order.
LexOrder == <<".", "a", "d", "d/b">>

Times == 1..MaxTime

\* time.Now(): later than the modification time of every pre-existing file.
Now == MaxTime + 1

None == [kind |-> "none", data |-> <<>>, mtime |-> 0, readable |-> TRUE]

Dir == [kind |-> "dir", data |-> <<>>, mtime |-> 0, readable |-> TRUE]

File(data, mtime, readable) ==
    [kind |-> "file", data |-> data, mtime |-> mtime, readable |-> readable]

\* A symbolic link to a readable regular file outside the tree: os.Stat and
\* os.Open follow it, the walk reports it as an entry that is no directory.
Symlink == [kind |-> "symlink", data |-> <<1>>, mtime |-> 1, readable |-> TRUE]

MkTree(r, a, d, b) ==
    [p \in Paths |-> CASE p = "."   -> r
                       [] p = "a"   -> a
                       [] p = "d"   -> d
                       [] p = "d/b" -> b]

\* Content of the source files, one value per path.
SrcData(p) == IF p = "d/b" THEN <<2, 2>> ELSE <<1>>

SrcFiles(p) == {File(SrcData(p), 1, rd) : rd \in BOOLEAN}

\* Contents a destination file can start with: equal to the source file,
\* same size but different, and of another size.
DstData == {<<1>>, <<2>>, <<2, 2>>}

DstFiles == {File(x, t, TRUE) : x \in DstData, t \in Times}

\* Source trees: the root is missing, a regular file, or a directory; "a"
\* may be a symbolic link.
SrcTrees ==
    {MkTree(None, None, None, None), MkTree(Dir, Symlink, None, None)}
    \cup {MkTree(r, None, None, None) : r \in SrcFiles(".")}
    \cup {MkTree(Dir, a, None, None) : a \in {None} \cup SrcFiles("a")}
    \cup {MkTree(Dir, a, Dir, b) :
             a \in {None} \cup SrcFiles("a"), b \in {None} \cup SrcFiles("d/b")}

\* Destination trees: "d" may also be a regular file where the source has a
\* directory.
DstTrees ==
    {MkTree(None, None, None, None), MkTree(File(<<2>>, MaxTime, TRUE), None, None, None)}
    \cup {MkTree(Dir, a, d, None) :
             a \in {None} \cup DstFiles, d \in {None, Dir, File(<<1>>, 1, TRUE)}}
    \cup {MkTree(Dir, a, Dir, b) : a \in {None} \cup DstFiles, b \in DstFiles}

\* config.Config: the fields the engine reads.
Methods == {"modtime", "sha256", "lz4", ""}

Configs == [UpdateMethod : Methods, DeleteMissing : BOOLEAN]

\* Operating-system failures a step may meet besides those the trees imply.
Faults == {"none", "stat", "mkdir", "create", "copy", "fstat", "chtimes",
           "detect", "remove"}

VARIABLES
    cfg,        \* Synchronizer.cfg
    src,        \* the tree under cfg.Source
    dst,        \* the tree under cfg.Target
    pc,         \* position in Synchronizer.Sync
    run,        \* number of the current run
    hasErrors,  \* Synchronizer.Sync: hasErrors
    validErr,   \* ValidateSyncDirs returned an error in this run
    strategy,   \* stream.Sync: updateStrategy ("nil" before creation or on error)
    todo,       \* entries the current walk has still to visit
    tally,      \* stream.Sync: fileCount, copiedCount, skippedCount, errorCount
    sweepTally, \* stream.DeleteMissing: fileCount, deletedCount, errorCount
    log,        \* the events of this run passed to the logger: <<event, path>>
    prev,       \* what the copy pass of the previous run reported
    dst0,       \* the destination tree when the current run started
    nfaults,    \* operating-system failures injected so far
    result      \* what Synchronizer.Sync returned: "none" while running

vars == <<cfg, src, dst, pc, run, hasErrors, validErr, strategy, todo, tally,
          sweepTally, log, prev, dst0, nfaults, result>>

ZeroTally == [files |-> 0, copied |-> 0, skipped |-> 0, errors |-> 0]

ZeroSweep == [files |-> 0, deleted |-> 0, errors |-> 0]

NoPrev == [ran |-> FALSE, errors |-> 0, warned |-> FALSE, transfers |-> 0,
           outcome |-> "none", result |-> "none"]

Init ==
    /\ cfg \in Configs
    /\ src \in SrcTrees
    /\ dst \in DstTrees
    /\ ~(src["."].kind = "file" /\ dst["."].kind = "dir")
    /\ pc = "validate"
    /\ run = 1
    /\ hasErrors = FALSE
    /\ validErr = FALSE
    /\ strategy = "nil"
    /\ todo = <<>>
    /\ tally = ZeroTally
    /\ sweepTally = ZeroSweep
    /\ log = {}
    /\ prev = NoPrev
    /\ dst0 = dst
    /\ nfaults = 0
    /\ result = "none"

\* A step meets the failure `fault`: only failures that change what the step
\* does are drawn, and at most MaxFaults of them.
Inject(fault, effective) ==
    IF fault = "none"
    THEN nfaults' = nfaults
    ELSE effective /\ nfaults < MaxFaults /\ nfaults' = nfaults + 1

\* ------------------------------------------------------ validate/dir/dir.go
\* validateDir: "ok", or "err"; with allowCreate a missing directory is made.
validateDir(tree, allowCreate, fault) ==
    IF fault = "stat"
    THEN [err |-> TRUE, tree |-> tree]
    ELSE IF tree["."].kind = "none"
    THEN IF allowCreate /\ fault # "mkdir"
         THEN [err |-> FALSE, tree |-> [tree EXCEPT !["."] = Dir]]
         ELSE [err |-> TRUE, tree |-> tree]
    ELSE IF tree["."].kind # "dir"
    THEN [err |-> TRUE, tree |-> tree]
    ELSE [err |-> FALSE, tree |-> tree]

\* Mutant: the target is validated, and created, whatever the source is.
ValidateSyncDirs_Both(s, d, fault) ==
    [err  |-> validateDir(s, FALSE, fault).err \/ validateDir(d, TRUE, fault).err,
     tree |-> validateDir(d, TRUE, fault).tree]

\* ValidateSyncDirs: the source first, the target only if the source passed.
ValidateSyncDirs(s, d, fault) ==
    IF validateDir(s, FALSE, fault).err
    THEN [err |-> TRUE, tree |-> d]
    ELSE validateDir(d, TRUE, fault)

\* Synchronizer.Sync, phase 1.  A validation error sets hasErrors and the
\* method goes on to phase 2.
Validate ==
    /\ pc = "validate"
    /\ \E fault \in {"none", "stat", "mkdir"} :
         LET v == ValidateSyncDirs(src, dst, fault) IN
           /\ Inject(fault, v # ValidateSyncDirs(src, dst, "none"))
           /\ dst' = v.tree
           /\ validErr' = v.err
           /\ hasErrors' = v.err
    /\ pc' = "strategy"
    /\ UNCHANGED <<cfg, src, run, strategy, todo, tally, sweepTally, log, prev, dst0, result>>

\* ------------------------------------------------------ stream/strategy.go
Size(e) == Len(e.data)

\* Mutant: the sizes are not compared.
ModTimeNeedsUpdate_TimeOnly(s, d) == ~(s.mtime = d.mtime)

\* Mutant: the modification times are not compared.
ModTimeNeedsUpdate_SizeOnly(s, d) == Size(s) # Size(d)

\* Mutant: the bytes are compared as well as the size and the time.
ModTimeNeedsUpdate_Content(s, d) ==
    Size(s) # Size(d) \/ ~(s.mtime = d.mtime) \/ s.data # d.data

\* ModTimeStrategy.NeedsUpdate on two inspectable files.
ModTimeNeedsUpdate(s, d) ==
    IF Size(s) # Size(d)
    THEN TRUE
    ELSE IF ~(s.mtime = d.mtime)
    THEN TRUE
    ELSE FALSE

\* calculateSHA256: the digest of a byte sequence, here its base-3 numeral
\* with a leading 1, which like SHA-256 tells apart all contents that occur.
RECURSIVE calculateSHA256(_)
calculateSHA256(data) ==
    IF data = <<>>
    THEN 1
    ELSE 3 * calculateSHA256(SubSeq(data, 1, Len(data) - 1)) + data[Len(data)]

\* Mutant: a differing modification time also gives needs-update.
SHA256NeedsUpdate_WithTime(s, d) ==
    calculateSHA256(s.data) # calculateSHA256(d.data) \/ s.mtime # d.mtime

\* SHA256Strategy.NeedsUpdate on two readable files.
SHA256NeedsUpdate(s, d) == calculateSHA256(s.data) # calculateSHA256(d.data)

\* ModTimeStrategy.Name and SHA256Strategy.Name.
Name(strat) ==
    CASE strat = "modtime" -> "modtime"
      [] strat = "sha256"  -> "sha256"

\* Mutant: an unknown method falls back to the default strategy.
NewUpdateStrategy_Default(method) ==
    CASE method = "sha256"  -> "sha256"
      [] OTHER              -> "modtime"

\* NewUpdateStrategy: the strategy, or "nil" with an error.
NewUpdateStrategy(method) ==
    CASE method = "modtime" -> "modtime"
      [] method = "sha256"  -> "sha256"
      [] OTHER              -> "nil"

\* strategy.NeedsUpdate(srcPath, dstPath): the verdict, or an error when a
\* file cannot be inspected (modtime: stat; sha256: open and read).
NeedsUpdate(strat, s, d, fault) ==
    IF strat = "modtime"
    THEN IF fault = "detect"
         THEN [err |-> TRUE, verdict |-> FALSE]
         ELSE [err |-> FALSE, verdict |-> ModTimeNeedsUpdate(s, d)]
    ELSE IF fault = "detect" \/ ~s.readable \/ ~d.readable \/ d.kind = "dir"
         THEN [err |-> TRUE, verdict |-> FALSE]
         ELSE [err |-> FALSE, verdict |-> SHA256NeedsUpdate(s, d)]

\* ---------------------------------------------------------- stream/sync.go
\* os.Stat of the entry at relative path p of a tree, seen through
\* os.IsNotExist: "ok", "notfound" (ENOENT), or "error" (ENOTDIR below a
\* regular file, or any other failure).
Stat(tree, p, fault) ==
    IF fault = "stat" \/ \E i \in 1..Len(Ancestors(p)) : tree[Ancestors(p)[i]].kind = "file"
    THEN "error"
    ELSE IF tree[p].kind = "none"
    THEN "notfound"
    ELSE "ok"

\* Mutant: the walk hands every file to the callback twice.
WalkFiles_Twice(tree) ==
    SelectSeq(LexOrder, LAMBDA p : tree[p].kind \notin {"none", "dir"})
      \o SelectSeq(LexOrder, LAMBDA p : tree[p].kind \notin {"none", "dir"})

\* The entries a walk of the tree hands to the part of the callback after
\* the d.IsDir() test, in walk order: all that are no directories.  A missing root yields the one callback
\* with err # nil, counted by WalkRootErr.
WalkFiles(tree) ==
    SelectSeq(LexOrder, LAMBDA p : tree[p].kind \notin {"none", "dir"})

\* Mutant: the failed access to the root is not counted.
WalkRootErr_Zero(tree) == 0

WalkRootErr(tree) == IF tree["."].kind = "none" THEN 1 ELSE 0

Min(x, y) == IF x < y THEN x ELSE y

\* os.MkdirAll(filepath.Dir(dst), 0755): creates the missing ancestors, root
\* first; it fails below a regular file, and an injected failure stops it
\* after the first k missing ancestors.
MkdirAll(tree, p, fault, k) ==
    LET anc     == Ancestors(p)
        missing == SelectSeq(anc, LAMBDA a : tree[a].kind = "none")
        blocked == \E i \in 1..Len(anc) : tree[anc[i]].kind = "file"
        upto(n) == [q \in Paths |->
                      IF \E i \in 1..n : missing[i] = q THEN Dir ELSE tree[q]]
    IN  IF blocked
        THEN [ok |-> FALSE, tree |-> tree]
        ELSE IF fault = "mkdir" /\ missing # <<>>
        THEN [ok |-> FALSE, tree |-> upto(Min(k, Len(missing) - 1))]
        ELSE [ok |-> TRUE, tree |-> upto(Len(missing))]

\* Mutant: the bytes are not streamed, the destination stays as created.
CopiedEntry_NoData(s, fault) == File(<<>>, Now, TRUE)

\* Mutant: the modification time of the source is not carried over.
CopiedEntry_NoChtimes(s, fault) == File(s.data, Now, TRUE)

\* The destination entry after io.Copy streamed all bytes of s: the content
\* of s, and its modification time unless in.Stat or os.Chtimes failed.
CopiedEntry(s, fault) ==
    File(s.data, IF fault \in {"fstat", "chtimes"} THEN Now ELSE s.mtime, TRUE)

\* Mutant: a failed copy removes what it wrote.
PartialEntry_Cleanup(s, k) == None

\* The destination entry after io.Copy failed: the first bytes of s, fewer
\* than all, in the file os.Create made.
PartialEntry(s, k) == File(SubSeq(s.data, 1, Min(k, Len(s.data) - 1)), Now, TRUE)

\* Mutant: the destination is created before the source is opened.
copyFile_CreateFirst(s, tree, p, fault, k) ==
    LET m == MkdirAll(tree, p, fault, k) IN
      IF ~m.ok
      THEN [err |-> TRUE, tree |-> m.tree, warn |-> FALSE, stage |-> "mkdir"]
      ELSE IF m.tree[p].kind = "dir" \/ fault = "create"
      THEN [err |-> TRUE, tree |-> m.tree, warn |-> FALSE, stage |-> "create"]
      ELSE IF ~s.readable
      THEN [err  |-> TRUE,
            tree |-> [m.tree EXCEPT ![p] = File(<<>>, Now, TRUE)],
            warn |-> FALSE, stage |-> "open"]
      ELSE IF fault = "copy"
      THEN [err  |-> TRUE,
            tree |-> [m.tree EXCEPT ![p] = PartialEntry(s, k)],
            warn |-> FALSE, stage |-> "copy"]
      ELSE [err  |-> FALSE,
            tree |-> [m.tree EXCEPT ![p] = CopiedEntry(s, fault)],
            warn |-> fault \in {"fstat", "chtimes"}, stage |-> "done"]

\* copyFile(src, dst) for the source entry s and the destination path p;
\* stage is the call that failed.
copyFile(s, tree, p, fault, k) ==
    LET m == MkdirAll(tree, p, fault, k) IN
      IF ~m.ok
      THEN [err |-> TRUE, tree |-> m.tree, warn |-> FALSE, stage |-> "mkdir"]
      ELSE IF ~s.readable
      THEN [err |-> TRUE, tree |-> m.tree, warn |-> FALSE, stage |-> "open"]
      ELSE IF m.tree[p].kind = "dir" \/ fault = "create"
      THEN [err |-> TRUE, tree |-> m.tree, warn |-> FALSE, stage |-> "create"]
      ELSE IF fault = "copy"
      THEN [err  |-> TRUE,
            tree |-> [m.tree EXCEPT ![p] = PartialEntry(s, k)],
            warn |-> FALSE, stage |-> "copy"]
      ELSE [err  |-> FALSE,
            tree |-> [m.tree EXCEPT ![p] = CopiedEntry(s, fault)],
            warn |-> fault \in {"fstat", "chtimes"}, stage |-> "done"]

\* Mutant: a failure to preserve the modification time is not logged.
CopyEvents_NoWarn(ev, c) ==
    {ev} \cup (IF c.err THEN {} ELSE {"COPIED"})
         \cup (IF c.stage = "mkdir" THEN {"MKDIRERR"} ELSE {})
         \cup (IF c.stage = "open" THEN {"OPENERR"} ELSE {})
         \cup (IF c.stage = "copy" THEN {"COPYERR"} ELSE {})

\* The events of a copyFile call announced as ev ("NEW" or "UPDATE").
CopyEvents(ev, c) ==
    {ev} \cup (IF c.err THEN {} ELSE {"COPIED"})
         \cup (IF c.warn THEN {"WARN"} ELSE {})
         \cup (IF c.stage = "mkdir" THEN {"MKDIRERR"} ELSE {})
         \cup (IF c.stage = "open" THEN {"OPENERR"} ELSE {})
         \cup (IF c.stage = "copy" THEN {"COPYERR"} ELSE {})

\* Mutant: any failure of the stat of the destination is taken for absence.
processFileWithStrategy_StatErrAsNew(strat, s, tree, p, fault, k) ==
    LET st == Stat(tree, p, fault) IN
      IF st # "ok"
      THEN LET c == copyFile(s, tree, p, fault, k) IN
             [err |-> c.err, tree |-> c.tree, evs |-> CopyEvents("NEW", c)]
      ELSE LET v == NeedsUpdate(strat, s, tree[p], fault) IN
             IF v.err
             THEN [err |-> TRUE, tree |-> tree, evs |-> {"DETECTERR"}]
             ELSE IF v.verdict
             THEN LET c == copyFile(s, tree, p, fault, k) IN
                    [err |-> c.err, tree |-> c.tree, evs |-> CopyEvents("UPDATE", c)]
             ELSE [err |-> FALSE, tree |-> tree, evs |-> {"SKIP"}]

\* processFileWithStrategy for the source file at relative path p.
processFileWithStrategy(strat, s, tree, p, fault, k) ==
    LET st == Stat(tree, p, fault) IN
      IF st = "notfound"
      THEN LET c == copyFile(s, tree, p, fault, k) IN
             [err |-> c.err, tree |-> c.tree, evs |-> CopyEvents("NEW", c)]
      ELSE IF st = "error"
      THEN [err |-> TRUE, tree |-> tree, evs |-> {"STATERR"}]
      ELSE LET v == NeedsUpdate(strat, s, tree[p], fault) IN
             IF v.err
             THEN [err |-> TRUE, tree |-> tree, evs |-> {"DETECTERR"}]
             ELSE IF v.verdict
             THEN LET c == copyFile(s, tree, p, fault, k) IN
                    [err |-> c.err, tree |-> c.tree, evs |-> CopyEvents("UPDATE", c)]
             ELSE [err |-> FALSE, tree |-> tree, evs |-> {"SKIP"}]

\* The files copyFile was called for in this run.
Transfers == {p \in Paths : <<"NEW", p>> \in log \/ <<"UPDATE", p>> \in log}

\* Mutant: the callback returns the entry's error, which ends the walk.
NextTodo_Abort(rest, failed) == IF failed THEN <<>> ELSE Tail(rest)

\* Mutant: the walk hands a failed entry to the callback again.
NextTodo_Retry(rest, failed) == IF failed THEN rest ELSE Tail(rest)

\* What the walk does after a callback: the callback always returns nil, so
\* the walk goes on with the next entry whether or not the entry failed.
NextTodo(rest, failed) == Tail(rest)

Events(evs, p) == {<<e, p>> : e \in evs}

\* stream.Sync up to the start of the walk: the strategy is created; on an
\* error Sync returns it and Synchronizer.Sync sets hasErrors.
SyncStart ==
    /\ pc = "strategy"
    /\ strategy' = NewUpdateStrategy(cfg.UpdateMethod)
    /\ IF strategy' = "nil"
       THEN /\ hasErrors' = TRUE
            /\ pc' = "phase3"
            /\ UNCHANGED <<todo, tally, log>>
       ELSE /\ pc' = "copy"
            /\ todo' = WalkFiles(src)
            /\ tally' = [ZeroTally EXCEPT !.errors = WalkRootErr(src)]
            /\ log' = log \cup (IF WalkRootErr(src) = 1 THEN Events({"ACCESS"}, ".") ELSE {})
            /\ UNCHANGED hasErrors
    /\ UNCHANGED <<cfg, nfaults, src, dst, run, validErr, sweepTally, prev, dst0, result>>

\* Mutant: a file that was copied is removed from the source (a move).
CopyStep_Move ==
    /\ pc = "copy"
    /\ todo # <<>>
    /\ \E fault \in Faults \ {"remove"}, k \in 0..1 :
         LET p == Head(todo)
             r == processFileWithStrategy(strategy, src[p], dst, p, fault, k)
         IN  /\ Inject(fault, r # processFileWithStrategy(strategy, src[p], dst, p, "none", k))
             /\ dst' = r.tree
             /\ src' = IF "COPIED" \in r.evs THEN [src EXCEPT ![p] = None] ELSE src
             /\ tally' = IF r.err
                         THEN [tally EXCEPT !.files = @ + 1, !.errors = @ + 1]
                         ELSE [tally EXCEPT !.files = @ + 1, !.copied = @ + 1]
             /\ log' = log \cup Events(r.evs \cup (IF r.err THEN {"FAIL"} ELSE {}), p)
             /\ todo' = NextTodo(todo, r.err)
    /\ UNCHANGED <<cfg, pc, run, hasErrors, validErr, strategy, sweepTally, prev, dst0, result>>

\* One callback of the walk of stream.Sync on a file.
CopyStep ==
    /\ pc = "copy"
    /\ todo # <<>>
    /\ \E fault \in Faults \ {"remove"}, k \in 0..1 :
         LET p == Head(todo)
             r == processFileWithStrategy(strategy, src[p], dst, p, fault, k)
         IN  /\ Inject(fault, r # processFileWithStrategy(strategy, src[p], dst, p, "none", k))
             /\ dst' = r.tree
             /\ tally' = IF r.err
                         THEN [tally EXCEPT !.files = @ + 1, !.errors = @ + 1]
                         ELSE [tally EXCEPT !.files = @ + 1, !.copied = @ + 1]
             /\ log' = log \cup Events(r.evs \cup (IF r.err THEN {"FAIL"} ELSE {}), p)
             /\ todo' = NextTodo(todo, r.err)
    /\ UNCHANGED <<cfg, src, pc, run, hasErrors, validErr, strategy, sweepTally, prev, dst0, result>>

\* The walk is over: stream.Sync returns nil.
SyncEnd ==
    /\ pc = "copy"
    /\ todo = <<>>
    /\ pc' = "phase3"
    /\ UNCHANGED <<cfg, nfaults, src, dst, run, hasErrors, validErr, strategy, todo, tally,
                   sweepTally, log, prev, dst0, result>>

\* -------------------------------------------------------- stream/delete.go
\* Mutant: any failed probe is taken for absence.
ProbeNotExist_AnyErr(st) == st # "ok"

\* os.IsNotExist(err) on the result of the probe of the source counterpart.
ProbeNotExist(st) == st = "notfound"

\* Mutant: the removal is reported but not done.
Remove_Noop(tree, p) == tree

\* Mutant: a directory emptied by the removal is removed with the file.
Remove_Prune(tree, p) ==
    [q \in Paths |-> IF q = p \/ (p = "d/b" /\ q = "d") THEN None ELSE tree[q]]

\* os.Remove(dstPath) when it succeeds.
Remove(tree, p) == [tree EXCEPT ![p] = None]

\* Mutant: only a regular file of the source keeps its counterpart.
DeleteStep_FilesOnly(s, tree, p, fault) ==
    IF s[p].kind = "file"
    THEN [tree |-> tree, deleted |-> 0, errors |-> 0, evs |-> {"KEEP"}]
    ELSE [tree |-> Remove(tree, p), deleted |-> 1, errors |-> 0, evs |-> {"REMOVE"}]

\* Mutant: the sweep keeps every file it visits.
DeleteStep_KeepAll(s, tree, p, fault) ==
    [tree |-> tree, deleted |-> 0, errors |-> 0, evs |-> {"KEEP"}]

\* One callback of the walk of stream.DeleteMissing on a file at relative
\* path p: the probe of the source counterpart decides.
DeleteStep(s, tree, p, fault) ==
    LET st == Stat(s, p, fault) IN
      IF ProbeNotExist(st)
      THEN IF fault = "remove"
           THEN [tree |-> tree, deleted |-> 0, errors |-> 1, evs |-> {"DELFAIL"}]
           ELSE [tree |-> Remove(tree, p), deleted |-> 1, errors |-> 0,
                 evs |-> {"REMOVE"}]
      ELSE IF st # "ok"
      THEN [tree |-> tree, deleted |-> 0, errors |-> 1, evs |-> {"PROBEERR"}]
      ELSE [tree |-> tree, deleted |-> 0, errors |-> 0, evs |-> {"KEEP"}]

\* Mutant: the run is reported as a success whatever happened.
Finish_AlwaysOk(errs) == "ok"

\* The destination tree after the walk of stream.Sync over the given
\* entries of the source tree s, when the operating system fails nowhere.
RECURSIVE SyncWalk(_, _, _, _)
SyncWalk(strat, s, tree, entries) ==
    IF entries = <<>>
    THEN tree
    ELSE SyncWalk(strat, s,
                  processFileWithStrategy(strat, s[Head(entries)], tree,
                                          Head(entries), "none", 0).tree,
                  Tail(entries))

\* The destination tree after the walk of stream.DeleteMissing over its
\* entries, when the operating system fails nowhere.
RECURSIVE DeleteWalk(_, _, _)
DeleteWalk(s, tree, entries) ==
    IF entries = <<>>
    THEN tree
    ELSE DeleteWalk(s, DeleteStep(s, tree, Head(entries), "none").tree, Tail(entries))

\* stream.Sync followed by stream.DeleteMissing, as Synchronizer.Sync calls
\* them.
CopyThenSweep(strat, s, tree) ==
    LET copied == SyncWalk(strat, s, tree, WalkFiles(s))
    IN  DeleteWalk(s, copied, WalkFiles(copied))

\* What Synchronizer.Sync returns.
Finish(errs) == IF errs THEN "error" ELSE "ok"

\* Mutant: the sweep starts whatever the configuration says.
Phase3_Always ==
    /\ pc = "phase3"
    /\ pc' = "sweep"
    /\ todo' = WalkFiles(dst)
    /\ sweepTally' = [ZeroSweep EXCEPT !.errors = WalkRootErr(dst)]
    /\ log' = log \cup (IF WalkRootErr(dst) = 1 THEN Events({"DACCESS"}, ".") ELSE {})
    /\ UNCHANGED <<cfg, nfaults, src, dst, run, hasErrors, validErr, strategy, tally,
                   prev, dst0, result>>

\* Synchronizer.Sync, phase 3: the sweep starts if cfg.DeleteMissing,
\* otherwise the run ends.
Phase3 ==
    /\ pc = "phase3"
    /\ IF cfg.DeleteMissing
       THEN /\ pc' = "sweep"
            /\ todo' = WalkFiles(dst)
            /\ sweepTally' = [ZeroSweep EXCEPT !.errors = WalkRootErr(dst)]
            /\ log' = log \cup (IF WalkRootErr(dst) = 1 THEN Events({"DACCESS"}, ".") ELSE {})
            /\ UNCHANGED result
       ELSE /\ pc' = "done"
            /\ result' = Finish(hasErrors)
            /\ UNCHANGED <<todo, sweepTally, log>>
    /\ UNCHANGED <<cfg, nfaults, src, dst, run, hasErrors, validErr, strategy, tally, prev, dst0>>

\* One callback of the walk of stream.DeleteMissing on a file.
SweepStep ==
    /\ pc = "sweep"
    /\ todo # <<>>
    /\ \E fault \in {"none", "stat", "remove"} :
         LET p == Head(todo)
             r == DeleteStep(src, dst, p, fault)
         IN  /\ Inject(fault, r # DeleteStep(src, dst, p, "none"))
             /\ dst' = r.tree
             /\ sweepTally' = [sweepTally EXCEPT !.files = @ + 1,
                                                 !.deleted = @ + r.deleted,
                                                 !.errors = @ + r.errors]
             /\ log' = log \cup Events(r.evs, p)
             /\ todo' = Tail(todo)
    /\ UNCHANGED <<cfg, src, pc, run, hasErrors, validErr, strategy, tally, prev, dst0, result>>

\* The walk is over: DeleteMissing returns nil and Synchronizer.Sync returns.
SweepEnd ==
    /\ pc = "sweep"
    /\ todo = <<>>
    /\ pc' = "done"
    /\ result' = Finish(hasErrors)
    /\ UNCHANGED <<cfg, nfaults, src, dst, run, hasErrors, validErr, strategy, todo, tally,
                   sweepTally, log, prev, dst0>>

\* How the current run went: "aborted" on a failed validation or an
\* unsupported method, "errors" when only entries of a walk failed.
Outcome ==
    IF validErr \/ strategy = "nil"
    THEN "aborted"
    ELSE IF tally.errors > 0 \/ sweepTally.errors > 0
    THEN "errors"
    ELSE "success"

\* The tool is started again on the same trees with the same configuration.
Restart ==
    /\ pc = "done"
    /\ run < MaxRuns
    /\ run' = run + 1
    /\ pc' = "validate"
    /\ hasErrors' = FALSE
    /\ validErr' = FALSE
    /\ strategy' = "nil"
    /\ todo' = <<>>
    /\ tally' = ZeroTally
    /\ sweepTally' = ZeroSweep
    /\ log' = {}
    /\ prev' = [ran    |-> strategy # "nil",
                errors |-> tally.errors,
                warned |-> \E p \in Paths : <<"WARN", p>> \in log,
                transfers |-> Cardinality(Transfers),
                outcome |-> Outcome,
                result |-> result]
    /\ dst0' = dst
    /\ result' = "none"
    /\ UNCHANGED <<cfg, nfaults, src, dst>>

Next ==
    \/ Validate
    \/ SyncStart
    \/ CopyStep
    \/ SyncEnd
    \/ Phase3
    \/ SweepStep
    \/ SweepEnd
    \/ Restart

Spec == Init /\ [][Next]_vars

\* The steps of a run: everything but the start of another run.
RunStep ==
    \/ Validate
    \/ SyncStart
    \/ CopyStep
    \/ SyncEnd
    \/ Phase3
    \/ SweepStep
    \/ SweepEnd

\* One run on its own.  A started run is a sequential program that keeps
\* executing: it takes its next step as long as it has one.
LiveSpec == Init /\ [][RunStep]_vars /\ WF_vars(RunStep)

TypeOK ==
    /\ pc \in {"validate", "strategy", "copy", "phase3", "sweep", "done"}
    /\ run \in 1..MaxRuns
    /\ strategy \in {"nil", "modtime", "sha256"}
    /\ \A p \in Paths : dst[p].kind \in {"none", "dir", "file"}

\* ------------------------------------------------------------- properties
\* The copy pass of this run was started and its walk is over.
CopyPassDone == pc = "phase3" /\ strategy # "nil"

\* The entries of the source tree the copy pass takes for files.
SrcFilePaths == {p \in Paths : src[p].kind \notin {"none", "dir"}}

\* A destination file the modtime strategy cannot tell from its source file
\* although the bytes differ.
LooksCurrent(s, d) ==
    /\ s.kind \notin {"none", "dir"} /\ d.kind = "file"
    /\ Len(s.data) = Len(d.data) /\ s.mtime = d.mtime
    /\ s.data # d.data

Mirrored(p) == dst[p].kind = "file" /\ dst[p].data = src[p].data

\* C1 as stated: after a copy pass without per-entry error every source
\* file has a byte-identical destination file, under either strategy and
\* whatever the destination held before.
C1_CompletenessAnyPrior ==
    (CopyPassDone /\ tally.errors = 0) => \A p \in SrcFilePaths : Mirrored(p)

\* C1 amended: after a copy pass without per-entry error every source file
\* has a byte-identical destination file, under sha256 whatever the
\* destination held before, and under modtime provided no destination file
\* had the size and modification time of its source file with other bytes.
C1_Completeness ==
    (/\ CopyPassDone
     /\ tally.errors = 0
     /\ \/ strategy = "sha256"
        \/ \A p \in Paths : ~LooksCurrent(src[p], dst0[p]))
    => \A p \in SrcFilePaths : Mirrored(p)

\* C1 witness: an error-free modtime pass copied a new file and replaced a
\* stale one.
C1_Witness ==
    /\ CopyPassDone
    /\ tally.errors = 0
    /\ strategy = "modtime"
    /\ <<"NEW", "a">> \in log
    /\ <<"UPDATE", "d/b">> \in log
    /\ dst0["d/b"].data # src["d/b"].data
    /\ \A p \in SrcFilePaths : Mirrored(p)

SrcAbsent(p) ==
    /\ src[p].kind = "none"
    /\ \A i \in 1..Len(Ancestors(p)) : src[Ancestors(p)[i]].kind # "file"

\* C3: a step removes a destination file only if its source counterpart is
\* absent and the probe did not fail; a destination file with a source
\* counterpart is never removed; a failed probe leaves the destination tree
\* as it is and adds one to the error count of the sweep.
C3_ConservativeDeletion ==
    [][\A p \in Paths :
         /\ (dst[p].kind = "file" /\ dst'[p].kind = "none")
              => (SrcAbsent(p) /\ <<"PROBEERR", p>> \notin log')
         /\ (pc = "sweep" /\ dst[p].kind = "file" /\ src[p].kind # "none")
              => dst'[p] = dst[p]
         /\ (<<"PROBEERR", p>> \in log' /\ <<"PROBEERR", p>> \notin log)
              => (dst' = dst /\ sweepTally'.errors = sweepTally.errors + 1)]_vars

\* C3 witness: a sweep kept a file that differs from its source file and a
\* file whose probe failed.
C3_Witness ==
    /\ pc = "done"
    /\ <<"KEEP", "a">> \in log
    /\ dst["a"].kind = "file" /\ dst["a"].data # src["a"].data
    /\ <<"PROBEERR", "d/b">> \in log
    /\ src["d/b"].kind = "none" /\ dst["d/b"].kind = "file"
    /\ sweepTally.errors = 1

\* C4: when directory validation failed, neither pass runs: nothing is
\* visited, counted, logged or changed in the destination.
C4_NoPassAfterFailedValidation ==
    validErr => /\ pc \notin {"copy", "sweep"}
                /\ log = {}
                /\ tally = ZeroTally /\ sweepTally = ZeroSweep
                /\ dst = dst0

\* C5: with an update method other than "modtime" and "sha256" no walk
\* takes place and the destination tree stays as it was.
C5_NoTouchOnBadMethod ==
    cfg.UpdateMethod \notin {"modtime", "sha256"}
    => /\ pc \notin {"copy", "sweep"}
       /\ dst = dst0

\* C6: a finished run that met a fatal error or recorded a per-entry error
\* in the copy pass or the sweep returns an error.
C6_FailureReported ==
    (/\ pc = "done"
     /\ \/ validErr
        \/ strategy = "nil"
        \/ tally.errors > 0
        \/ sweepTally.errors > 0)
    => result = "error"

Failed == {p \in Paths : <<"FAIL", p>> \in log}

Unreadable == {p \in SrcFilePaths : ~src[p].readable}

C8_TallyCounts ==
    CopyPassDone =>
      /\ tally.copied = Cardinality({p \in Paths : <<"COPIED", p>> \in log})
      /\ tally.skipped = Cardinality({p \in Paths : <<"SKIP", p>> \in log})

Removed == {p \in Paths : <<"REMOVE", p>> \in log}

\* C9: after a sweep, the files it removed are files without an entry at
\* their path under the source root, each file without such an entry that
\* is still there met a failed probe or a failed removal, the files with a
\* source entry were kept, and the deleted count is the number of files
\* removed; a sweep without error leaves no file that the source lacks.
C9_SweepDeletesMissing ==
    (pc = "done" /\ cfg.DeleteMissing) =>
      /\ \A p \in Removed : SrcAbsent(p) /\ dst[p].kind = "none"
      /\ \A p \in Paths :
           (dst[p].kind = "file" /\ src[p].kind = "none")
             => (<<"PROBEERR", p>> \in log \/ <<"DELFAIL", p>> \in log)
      /\ \A p \in Paths : <<"KEEP", p>> \in log => (src[p].kind # "none" /\ dst[p].kind = "file")
      /\ sweepTally.deleted = Cardinality(Removed)
      /\ sweepTally.errors = 0 =>
           \A p \in Paths : dst[p].kind = "file" => src[p].kind # "none"

\* C9 witness: a sweep of two files removed the one the source lacks, kept
\* the other and left the emptied directory.
C9_Witness ==
    /\ pc = "done"
    /\ cfg.DeleteMissing
    /\ src["a"].kind = "file" /\ src["d"].kind = "none"
    /\ Removed = {"d/b"}
    /\ <<"KEEP", "a">> \in log
    /\ dst["a"].kind = "file" /\ dst["d/b"].kind = "none" /\ dst["d"].kind = "dir"
    /\ sweepTally = [files |-> 2, deleted |-> 1, errors |-> 0]

\* C10: under the modtime strategy an existing destination file is judged
\* up-to-date exactly when it has the size and the modification time of
\* its source file, and needs-update when either differs.
C10_ModTimeVerdict ==
    (strategy = "modtime" /\ pc \in {"copy", "phase3"}) =>
      \A p \in Paths :
        /\ <<"SKIP", p>> \in log
             => (Len(src[p].data) = Len(dst0[p].data) /\ src[p].mtime = dst0[p].mtime)
        /\ <<"UPDATE", p>> \in log
             => (Len(src[p].data) # Len(dst0[p].data) \/ src[p].mtime # dst0[p].mtime)
        /\ (dst0[p].kind = "file" /\ src[p].kind = "file" /\ p \notin Failed
            /\ p \notin {todo[i] : i \in 1..Len(todo)})
             => (<<"SKIP", p>> \in log \/ <<"UPDATE", p>> \in log)

\* C10 witness: a modtime pass updated a file that differed only by its
\* modification time and skipped one of equal size and time.
C10_Witness ==
    /\ strategy = "modtime"
    /\ pc = "phase3"
    /\ <<"UPDATE", "a">> \in log
    /\ dst0["a"].data = src["a"].data /\ dst0["a"].mtime # src["a"].mtime
    /\ <<"SKIP", "d/b">> \in log
    /\ dst0["d/b"].data = src["d/b"].data

\* The files the walk of the copy pass has handled so far in this run.
Handled == SrcFilePaths \ {todo[i] : i \in 1..Len(todo)}

\* C11: under the sha256 strategy an existing readable destination file is
\* transferred exactly when its digest differs from the digest of its source
\* file and skipped exactly when the digests are equal, and the verdict on the
\* file about to be visited and its counterpart stays the same whatever
\* modification times the two carry.
C11_SHA256Verdict ==
    /\ (strategy = "sha256" /\ pc \in {"copy", "phase3"}) =>
         \A p \in Paths :
           /\ <<"SKIP", p>> \in log
                => calculateSHA256(src[p].data) = calculateSHA256(dst0[p].data)
           /\ <<"UPDATE", p>> \in log
                => calculateSHA256(src[p].data) # calculateSHA256(dst0[p].data)
           /\ (dst0[p].kind = "file" /\ p \in Handled /\ p \notin Failed)
                => (<<"SKIP", p>> \in log \/ <<"UPDATE", p>> \in log)
    /\ (pc = "copy" /\ todo # <<>> /\ dst[Head(todo)].kind = "file") =>
         \A t1 \in Times, t2 \in Times :
           SHA256NeedsUpdate([src[Head(todo)] EXCEPT !.mtime = t1],
                             [dst[Head(todo)] EXCEPT !.mtime = t2])
             = SHA256NeedsUpdate(src[Head(todo)], dst[Head(todo)])

\* C11 witness: a sha256 pass skipped a file of equal bytes and another
\* modification time, and updated a file of other bytes that had the size
\* and the modification time of its source file.
C11_Witness ==
    /\ strategy = "sha256"
    /\ pc = "phase3"
    /\ <<"SKIP", "d/b">> \in log
    /\ dst0["d/b"].data = src["d/b"].data /\ dst0["d/b"].mtime # src["d/b"].mtime
    /\ <<"UPDATE", "a">> \in log
    /\ LooksCurrent(src["a"], dst0["a"])

\* C12: on a pair of files with equal size and equal modification time but
\* different bytes ModTimeStrategy answers up-to-date and SHA256Strategy
\* needs-update, and a pass under either strategy acts on its answer; on
\* a pair with identical bytes SHA256Strategy answers up-to-date whatever
\* ModTimeStrategy answers.
C12_StrategyDisagreement ==
    \A p \in Paths :
      /\ LooksCurrent(src[p], dst0[p]) =>
           /\ ~ModTimeNeedsUpdate(src[p], dst0[p])
           /\ SHA256NeedsUpdate(src[p], dst0[p])
           /\ (pc \in {"copy", "phase3"} /\ p \in Handled /\ p \notin Failed) =>
                /\ strategy = "modtime" => <<"SKIP", p>> \in log
                /\ strategy = "sha256" => <<"UPDATE", p>> \in log
      /\ (src[p].kind = "file" /\ dst0[p].kind = "file" /\ src[p].data = dst0[p].data) =>
           /\ ~SHA256NeedsUpdate(src[p], dst0[p])
           /\ (strategy = "sha256" /\ pc \in {"copy", "phase3"}
                /\ p \in Handled /\ p \notin Failed) => <<"SKIP", p>> \in log

\* C12 witness: a sha256 pass updated a file that ModTimeStrategy judges
\* up-to-date, and skipped a file of identical bytes that ModTimeStrategy
\* judges stale.
C12_Witness ==
    /\ strategy = "sha256"
    /\ pc = "phase3"
    /\ LooksCurrent(src["a"], dst0["a"])
    /\ ~ModTimeNeedsUpdate(src["a"], dst0["a"])
    /\ <<"UPDATE", "a">> \in log
    /\ Mirrored("a")
    /\ src["d/b"].data = dst0["d/b"].data
    /\ ModTimeNeedsUpdate(src["d/b"], dst0["d/b"])
    /\ <<"SKIP", "d/b">> \in log

\* C13: once the strategy has been requested, it is the one named by the
\* update method when the method is "modtime" or "sha256"; for every other
\* method, the empty string included, there is no strategy and the request
\* counts as an error of the run.
C13_StrategyFactory ==
    pc \in {"copy", "phase3", "sweep", "done"} =>
      IF cfg.UpdateMethod \in {"modtime", "sha256"}
      THEN strategy # "nil" /\ Name(strategy) = cfg.UpdateMethod
      ELSE strategy = "nil" /\ hasErrors /\ (pc = "done" => result = "error")

\* C13 witness: a run with the empty method name ended without a strategy
\* and with an error.
C13_Witness ==
    /\ pc = "done"
    /\ cfg.UpdateMethod = ""
    /\ ~validErr
    /\ strategy = "nil"
    /\ tally = ZeroTally
    /\ result = "error"

\* The events a step added for the path p.
NewEvents(p) == {e \in {"NEW", "UPDATE", "SKIP", "COPIED", "STATERR", "DETECTERR", "FAIL"} :
                   <<e, p>> \in log' /\ <<e, p>> \notin log}

\* C14: each step of the copy pass takes, for the file p it visits, the
\* action its destination counterpart calls for: absent, copyFile is called
\* without consulting the detector; stat failed otherwise, an error is
\* counted and nothing is transferred; present, copyFile is called exactly
\* when the detector answers needs-update, on up-to-date the destination
\* tree stays as it is and no error is counted, and a detector error is
\* counted as an error with nothing transferred.
C14_WalkerAction ==
    [][(pc = "copy" /\ todo # <<>> /\ todo' # todo) =>
        LET p   == Head(todo)
            new == NewEvents(p)
            st  == Stat(dst, p, "none")
            quiet == /\ dst' = dst
                     /\ new \cap {"NEW", "UPDATE", "SKIP", "COPIED"} = {}
                     /\ tally'.errors = tally.errors + 1
        IN  /\ "STATERR" \in new => quiet
            /\ st = "error" => "STATERR" \in new
            /\ (st = "notfound" /\ "STATERR" \notin new)
                 => ("NEW" \in new /\ new \cap {"UPDATE", "SKIP", "DETECTERR"} = {})
            /\ "NEW" \in new => st = "notfound"
            /\ (st = "ok" /\ "STATERR" \notin new)
                 => Cardinality(new \cap {"UPDATE", "SKIP", "DETECTERR"}) = 1
            /\ "UPDATE" \in new
                 => (st = "ok" /\ NeedsUpdate(strategy, src[p], dst[p], "none").verdict)
            /\ "SKIP" \in new
                 => /\ st = "ok"
                    /\ ~NeedsUpdate(strategy, src[p], dst[p], "none").verdict
                    /\ dst' = dst
                    /\ tally'.errors = tally.errors
                    /\ new = {"SKIP"}
            /\ "DETECTERR" \in new => (st = "ok" /\ quiet)]_vars

\* C14 witness: one pass transferred a new file and met a destination path
\* below a regular file, whose stat failed and which was left alone.
C14_Witness ==
    /\ pc = "phase3"
    /\ <<"NEW", "a">> \in log /\ <<"COPIED", "a">> \in log
    /\ <<"STATERR", "d/b">> \in log
    /\ dst["d"].kind = "file"
    /\ tally.errors = 1

\* The files the copy pass of this run has visited.
Visited ==
    {p \in Paths : \E e \in {"NEW", "UPDATE", "SKIP", "STATERR", "DETECTERR", "FAIL"} :
                     <<e, p>> \in log}

\* The files the sweep of this run has visited.
SweepVisited ==
    {p \in Paths : \E e \in {"REMOVE", "DELFAIL", "PROBEERR", "KEEP"} : <<e, p>> \in log}

Pending == {todo[i] : i \in 1..Len(todo)}

\* The number of outcomes among evs that the log holds for p.
Outcomes(evs, p) == Cardinality({e \in evs : <<e, p>> \in log})

\* C15: in the copy pass and in the sweep no file is pending twice or
\* pending after its visit, the files counted are the files visited, at the
\* end of the walk every file of the walked tree has been visited, and each
\* visited file got at most one copy action, respectively exactly one of
\* removed, removal failed, probe failed and kept.
C15_VisitedOnce ==
    /\ pc \in {"copy", "sweep"} =>
         /\ Cardinality(Pending) = Len(todo)
    /\ pc = "copy" =>
         /\ Pending \cap Visited = {}
         /\ Pending \cup Visited = SrcFilePaths
         /\ tally.files = Cardinality(Visited)
    /\ CopyPassDone =>
         /\ Visited = SrcFilePaths
         /\ tally.files = Cardinality(SrcFilePaths)
    /\ (strategy # "nil" /\ pc \in {"copy", "phase3", "sweep", "done"}) =>
         /\ \A p \in Paths : ~(<<"NEW", p>> \in log /\ <<"UPDATE", p>> \in log)
         /\ tally.copied + tally.errors = tally.files + WalkRootErr(src)
    /\ pc \in {"sweep", "done"} /\ cfg.DeleteMissing =>
         /\ Pending \cap SweepVisited = {}
         /\ Pending \cup SweepVisited = {p \in Paths : dst[p].kind = "file"} \cup Removed
         /\ sweepTally.files = Cardinality(SweepVisited)
         /\ \A p \in SweepVisited : Outcomes({"REMOVE", "DELFAIL", "PROBEERR", "KEEP"}, p) = 1
         /\ sweepTally.deleted = Cardinality(Removed)
         /\ sweepTally.deleted + sweepTally.errors <= sweepTally.files + WalkRootErr(dst)

\* C15 witness: a run visited its one source file and updated it, then
\* visited the two destination files, removing one and keeping the other.
C15_Witness ==
    /\ pc = "done"
    /\ cfg.DeleteMissing
    /\ tally.files = 1 /\ tally.errors = 0
    /\ Transfers = {"a"} /\ <<"UPDATE", "a">> \in log
    /\ sweepTally = [files |-> 2, deleted |-> 1, errors |-> 0]
    /\ SweepVisited = {"a", "d/b"}
    /\ Removed = {"d/b"}

\* C16: right after validation: it succeeded only if the source root is a
\* directory and the destination root was a directory or was absent and
\* has been created; it failed if the source root is missing or a regular
\* file or the destination root was a regular file; a failed validation
\* created nothing; and short of a failure of the operating system (stat of
\* a root, creation of the destination) it succeeded whenever the source
\* root is a directory and the destination root was a directory or absent.
C16_ValidateSyncDirs ==
    pc = "strategy" =>
      /\ ~validErr => /\ src["."].kind = "dir"
                      /\ dst0["."].kind \in {"dir", "none"}
                      /\ dst["."].kind = "dir"
                      /\ \A p \in Paths \ {"."} : dst[p] = dst0[p]
      /\ src["."].kind # "dir" => (validErr /\ dst = dst0)
      /\ dst0["."].kind = "file" => validErr
      /\ validErr => dst = dst0
      /\ (nfaults = 0 /\ src["."].kind = "dir" /\ dst0["."].kind \in {"dir", "none"})
           => ~validErr

\* C16 witness: validation of an existing source directory created the
\* missing destination directory.
C16_Witness ==
    /\ pc = "strategy"
    /\ ~validErr
    /\ src["."].kind = "dir"
    /\ dst0["."].kind = "none"
    /\ dst["."].kind = "dir"

\* C17: a finished run returned an error if the source root does not exist
\* or the update method is unsupported, and returned nil if validation
\* succeeded, the method is "modtime" or "sha256" and the copy pass
\* recorded no error, whether or not the sweep ran.
C17_SyncResult ==
    pc = "done" =>
      /\ (src["."].kind = "none" \/ cfg.UpdateMethod \notin {"modtime", "sha256"})
           => result = "error"
      /\ (~validErr /\ cfg.UpdateMethod \in {"modtime", "sha256"} /\ tally.errors = 0)
           => result = "ok"

\* C17 witness: a run with delete-missing copied both source files, removed
\* nothing it should keep and returned nil.
C17_Witness ==
    /\ pc = "done"
    /\ cfg.DeleteMissing
    /\ ~validErr
    /\ tally.files = 2 /\ tally.errors = 0
    /\ <<"COPIED", "a">> \in log /\ <<"COPIED", "d/b">> \in log
    /\ sweepTally.files = 2
    /\ result = "ok"

\* C18: the copy pass makes Synchronizer.Sync record an error only when no
\* strategy could be created; over a source root that does not exist it
\* ends without error returned, with no file visited and nothing
\* transferred, and with the failed access counted as one error of the walk.
C18_MissingRootIsEntryError ==
    /\ pc \in {"copy", "phase3"} => (hasErrors <=> (validErr \/ strategy = "nil"))
    /\ (CopyPassDone /\ src["."].kind = "none") =>
         /\ hasErrors = validErr
         /\ Transfers = {} /\ Visited = {}
         /\ dst = dst0
         /\ tally = [files |-> 0, copied |-> 0, skipped |-> 0, errors |-> 1]
         /\ <<"ACCESS", ".">> \in log

\* C18 witness: the copy pass over a missing source root ended with one
\* error counted and a destination that kept its file.
C18_Witness ==
    /\ CopyPassDone
    /\ src["."].kind = "none"
    /\ dst["a"].kind = "file"
    /\ tally.errors = 1
    /\ <<"ACCESS", ".">> \in log
    /\ Transfers = {}

\* C19: the copy pass and the sweep act on regular files only: a directory
\* is never visited as a file, and a symbolic link of the source tree is
\* not counted, transferred or skipped as a file.
C19_OnlyRegularFiles ==
    /\ \A p \in Paths : src[p].kind = "dir" => p \notin Visited
    /\ \A p \in Paths : dst[p].kind = "dir" => p \notin SweepVisited
    /\ \A p \in Paths :
         src[p].kind = "symlink"
           => (p \notin Visited /\ <<"COPIED", p>> \notin log /\ dst[p] = dst0[p])
    /\ pc \in {"copy", "phase3"}
         => tally.files <= Cardinality({p \in Paths : src[p].kind = "file"})

\* C20: two finished runs that went differently (success, completed with
\* per-entry errors only, aborted on a fatal error) never returned the same
\* result to the caller.
C20_ThreeOutcomes ==
    (pc = "done" /\ prev.outcome # "none" /\ prev.result = result)
    => prev.outcome = Outcome

\* The two passes in the order the run does not take: the sweep first.
SweepThenCopy(strat, s, tree) ==
    LET swept == DeleteWalk(s, tree, WalkFiles(tree))
    IN  SyncWalk(strat, s, swept, WalkFiles(s))

\* C21: from the trees a run finds after validation, the copy pass followed
\* by the sweep and the sweep followed by the copy pass end in the same
\* destination tree; and a run with delete-missing that met no failure of
\* the operating system ends in that tree.
C21_PassesCommute ==
    /\ (pc = "copy" /\ tally.files = 0) =>
         CopyThenSweep(strategy, src, dst) = SweepThenCopy(strategy, src, dst)
    /\ (pc = "done" /\ run = 1 /\ nfaults = 0 /\ cfg.DeleteMissing /\ strategy # "nil") =>
         dst = SweepThenCopy(strategy, src, ValidateSyncDirs(src, dst0, "none").tree)

\* C21 witness: a run copied one file and removed another, and the sweep
\* followed by the copy pass gives the destination tree it ended with.
C21_Witness ==
    /\ pc = "done" /\ run = 1 /\ nfaults = 0
    /\ cfg.DeleteMissing
    /\ <<"NEW", "a">> \in log /\ <<"COPIED", "a">> \in log
    /\ Removed = {"d/b"}
    /\ dst = SweepThenCopy(strategy, src, ValidateSyncDirs(src, dst0, "none").tree)
    /\ dst # dst0

\* C22: a file the copy pass copied has the modification time of its source
\* file unless a warning was logged for it, and a file with such a warning
\* was copied in full and counted as copied, not as an error.
C22_ModTimePreserved ==
    (pc = "copy" \/ CopyPassDone) =>
      /\ \A p \in Paths :
           /\ <<"COPIED", p>> \in log =>
                /\ Mirrored(p)
                /\ <<"WARN", p>> \in log \/ dst[p].mtime = src[p].mtime
           /\ <<"WARN", p>> \in log =>
                /\ <<"COPIED", p>> \in log
                /\ p \notin Failed
                /\ Mirrored(p)
      /\ tally.errors = WalkRootErr(src) + Cardinality(Failed)

\* C22 witness: of two copied files one kept the time of the copy, with a
\* warning and no error, and the other got the time of its source file.
C22_Witness ==
    /\ pc = "phase3"
    /\ <<"COPIED", "a">> \in log /\ <<"WARN", "a">> \in log
    /\ dst["a"].mtime = Now /\ Mirrored("a")
    /\ <<"COPIED", "d/b">> \in log /\ <<"WARN", "d/b">> \notin log
    /\ dst["d/b"].mtime = src["d/b"].mtime /\ dst0["d/b"].mtime # src["d/b"].mtime
    /\ tally = [files |-> 2, copied |-> 2, skipped |-> 0, errors |-> 0]

\* x is the beginning of y and shorter than y.
StrictPrefix(x, y) == Len(x) < Len(y) /\ x = SubSeq(y, 1, Len(x))

CopyFailed == {p \in Paths : <<"COPYERR", p>> \in log}

\* C23: a file whose copy failed mid-stream is counted as one failed entry
\* and not as copied, its destination is a regular file holding a strict
\* prefix of the source bytes, and the walk goes on: nothing is pending
\* that was visited, and at the end of the walk every source file has been
\* visited and the errors are those of the failed entries.
C23_MidStreamFailure ==
    (pc = "copy" \/ CopyPassDone) =>
      /\ \A p \in CopyFailed :
           /\ p \in Failed
           /\ <<"COPIED", p>> \notin log
           /\ dst[p].kind = "file"
           /\ StrictPrefix(dst[p].data, src[p].data)
           /\ p \notin Pending
      /\ CopyFailed # {} =>
           /\ tally.errors = WalkRootErr(src) + Cardinality(Failed)
           /\ tally.files + Len(todo) = Cardinality(SrcFilePaths)
           /\ CopyPassDone => Visited = SrcFilePaths

\* C23 witness: the copy of the first file failed mid-stream over an
\* existing destination file, which is left empty, and the second file was
\* copied all the same.
C23_Witness ==
    /\ CopyPassDone
    /\ CopyFailed = {"a"}
    /\ dst0["a"].kind = "file" /\ dst0["a"].data # <<>>
    /\ dst["a"].kind = "file" /\ dst["a"].data = <<>>
    /\ <<"COPIED", "d/b">> \in log /\ Mirrored("d/b")
    /\ tally.errors = 1 /\ tally.copied = 1

\* C24: from the end of the copy pass to the end of the run, a step leaves
\* every entry of the destination tree as it is, except that a step of the
\* sweep may remove one regular file whose path holds no entry in the
\* source; no directory is removed and no kept file changes.
C24_SweepFrame ==
    [][(pc = "phase3" \/ pc = "sweep") =>
        \A p \in Paths :
          (/\ dst[p].kind = "dir" => dst'[p].kind = "dir"
           /\ \/ dst'[p] = dst[p]
              \/ /\ pc = "sweep"
                 /\ dst[p].kind = "file"
                 /\ dst'[p] = None
                 /\ SrcAbsent(p)
                 /\ p = Head(todo))]_vars

\* C24 witness: the sweep removed the only file of a directory, which is
\* still there, and kept another file with its bytes and time.
C24_Witness ==
    /\ pc = "done"
    /\ Removed = {"d/b"}
    /\ dst["d/b"].kind = "none" /\ dst["d"].kind = "dir"
    /\ src["d"].kind = "none"
    /\ <<"KEEP", "a">> \in log /\ <<"SKIP", "a">> \in log
    /\ dst["a"] = dst0["a"]

\* C27: without delete-missing every path that held a regular file in the
\* destination when the run started holds one at every later point of the
\* run and no step of a sweep is taken; and the run goes from the copy pass
\* into the sweep exactly when delete-missing is set.
C27_NoRemovalWithoutFlag ==
    /\ [](~cfg.DeleteMissing =>
            /\ \A p \in Paths : dst0[p].kind = "file" => dst[p].kind = "file"
            /\ pc # "sweep"
            /\ sweepTally = ZeroSweep
            /\ SweepVisited = {})
    /\ [][pc = "phase3" => (pc' = "sweep" <=> cfg.DeleteMissing)]_vars

\* C27 witness: a run without delete-missing ended with a destination file
\* the source lacks still in place, next to a file it updated.
C27_Witness ==
    /\ pc = "done"
    /\ ~cfg.DeleteMissing
    /\ ~validErr
    /\ src["d"].kind = "none" /\ dst0["d/b"].kind = "file"
    /\ dst["d/b"] = dst0["d/b"]
    /\ <<"UPDATE", "a">> \in log /\ Mirrored("a")

\* The position of a run in the order of its phases.
PhaseRank ==
    CASE pc = "validate" -> 0
      [] pc = "strategy" -> 1
      [] pc = "copy"     -> 2
      [] pc = "phase3"   -> 3
      [] pc = "sweep"    -> 4
      [] pc = "done"     -> 5

\* C25: within a run every step moves to a later phase or, inside a walk,
\* leaves one entry less to visit, so no phase is entered twice and no
\* entry is handled again; and every run that has started reaches Done.
C25_Terminates ==
    /\ [][(run' = run) =>
            \/ PhaseRank' > PhaseRank
            \/ /\ pc' = pc
               /\ pc \in {"copy", "sweep"}
               /\ Len(todo') = Len(todo) - 1]_vars
    /\ (pc = "validate") ~> (pc = "done")

\* C25 witness: a run reached Done after per-entry errors in the copy pass
\* and in the sweep.
C25_Witness ==
    /\ pc = "done"
    /\ cfg.DeleteMissing
    /\ tally.errors > 0
    /\ sweepTally.errors > 0
    /\ tally.files > 0 /\ sweepTally.files > 0

\* C26: no step of a run, be it of validation, of the copy pass or of the
\* sweep, changes an entry of the source tree: kind, bytes and modification
\* time of every source entry stay as they are from one state to the next.
C26_SourceUntouched ==
    [][\A p \in Paths : src'[p] = src[p]]_vars

\* C26 witness: a run that created the destination root, copied a file
\* into it and swept it ended with its source files in place.
C26_Witness ==
    /\ pc = "done"
    /\ cfg.DeleteMissing
    /\ dst0["."].kind = "none"
    /\ <<"COPIED", "a">> \in log /\ <<"COPIED", "d/b">> \in log
    /\ <<"KEEP", "a">> \in log
    /\ src["a"].kind = "file" /\ src["d/b"].kind = "file"

\* The files whose copy failed before the destination was created: the
\* parent directory could not be made, or the source could not be opened.
NotOpened ==
    {p \in Paths : <<"MKDIRERR", p>> \in log \/ <<"OPENERR", p>> \in log}

\* C28: when copyFile fails because the parent directory cannot be created
\* or the source cannot be opened, the entry is counted as failed and not
\* as copied, and the destination path holds what it held when the run
\* started: an existing destination file keeps its bytes and its
\* modification time, and no file appears where there was none.
C28_OpenBeforeCreate ==
    (pc = "copy" \/ CopyPassDone) =>
      \A p \in NotOpened :
        /\ p \in Failed
        /\ <<"COPIED", p>> \notin log
        /\ dst[p] = dst0[p]

\* C28 witness: the source file cannot be opened while the destination
\* holds an older file of other content, which was judged stale and is
\* still there, bytes and modification time, after the copy pass.
C28_Witness ==
    /\ CopyPassDone
    /\ <<"UPDATE", "a">> \in log /\ <<"OPENERR", "a">> \in log
    /\ dst0["a"].kind = "file" /\ dst0["a"].data # <<>>
    /\ dst0["a"].data # src["a"].data
    /\ dst["a"] = dst0["a"]
    /\ tally.errors = 1

\* The destination held, when the run started, a regular file with a
\* strict prefix of the bytes of the source file at the same path.
PartialAtStart(p) ==
    /\ src[p].kind \notin {"none", "dir"}
    /\ dst0[p].kind = "file"
    /\ StrictPrefix(dst0[p].data, src[p].data)

\* C29: a destination file that holds a strict prefix of the source bytes,
\* as a copy that failed mid-stream leaves it, is judged needs-update by
\* the modtime strategy and by the sha256 strategy, whatever the
\* modification times; in a copy pass that visits it the file is never
\* skipped, it is announced as an update unless the destination could not
\* be inspected, and when its transfer succeeds the destination holds the
\* bytes of the source.
C29_PartialWriteRecovered ==
    /\ (pc = "copy" /\ todo # <<>> /\ PartialAtStart(Head(todo))) =>
          /\ dst[Head(todo)] = dst0[Head(todo)]
          /\ ModTimeNeedsUpdate(src[Head(todo)], dst[Head(todo)])
          /\ SHA256NeedsUpdate(src[Head(todo)], dst[Head(todo)])
    /\ (pc = "copy" \/ CopyPassDone) =>
          \A p \in Visited :
            PartialAtStart(p) =>
              /\ <<"SKIP", p>> \notin log
              /\ <<"NEW", p>> \notin log
              /\ (<<"STATERR", p>> \notin log /\ <<"DETECTERR", p>> \notin log)
                   => <<"UPDATE", p>> \in log
              /\ <<"COPIED", p>> \in log => Mirrored(p)

\* C29 witness: the previous run failed while it wrote a file, which the
\* destination holds cut short and stamped with the time of that write; the
\* copy pass of this run announced it as an update, copied it, and the
\* destination now holds the bytes of the source.
C29_Witness ==
    /\ run > 1 /\ prev.ran /\ prev.errors > 0
    /\ CopyPassDone
    /\ \E p \in Paths :
         /\ PartialAtStart(p)
         /\ dst0[p].mtime = Now
         /\ <<"UPDATE", p>> \in log /\ <<"COPIED", p>> \in log
         /\ Mirrored(p)
         /\ dst[p].mtime = src[p].mtime

\* The relative paths of the files, that is of the entries that are no
\* directories, under the destination root.
DstFilePaths == {p \in Paths : dst[p].kind \notin {"none", "dir"}}

\* A run with delete-missing enabled has ended; validation succeeded, the
\* copy pass and the sweep ran and neither recorded an error.
CleanMirrorRun ==
    /\ pc = "done"
    /\ cfg.DeleteMissing
    /\ ~validErr
    /\ strategy # "nil"
    /\ tally.errors = 0
    /\ sweepTally.errors = 0

\* C30 as stated: after such a run the destination holds files at exactly
\* the relative paths at which the source holds files.
C30_Mirror ==
    CleanMirrorRun => DstFilePaths = SrcFilePaths

\* No file of the destination sat, when the run started, at a relative path
\* at which the source holds a directory.
NoFileOverDir ==
    \A p \in Paths : ~(dst0[p].kind \notin {"none", "dir"} /\ src[p].kind = "dir")

\* C30 amended: after such a run, if no destination file occupied the path
\* of a source directory, the destination holds files at exactly the
\* relative paths at which the source holds files.
C30_MirrorAmended ==
    (CleanMirrorRun /\ NoFileOverDir) => DstFilePaths = SrcFilePaths

\* C30 witness: a clean run with delete-missing copied a file the
\* destination lacked and removed a file the source lacks; the destination
\* started with files at other paths than the source and ends with files
\* at the same paths.
C30_Witness ==
    /\ CleanMirrorRun /\ NoFileOverDir
    /\ {p \in Paths : dst0[p].kind = "file"} # SrcFilePaths
    /\ \E p \in Paths : <<"NEW", p>> \in log /\ <<"COPIED", p>> \in log
    /\ \E q \in Paths : <<"REMOVE", q>> \in log /\ dst[q].kind = "none"
    /\ DstFilePaths = SrcFilePaths

====
